---- MODULE Spec2Model ----
(***************************************************************************)
(* FacebookStrategy (src/facebookStrategy.ts): the server-side leg of the *)
(* OAuth 2.0 authorization-code grant.                                    *)
(*                                                                         *)
(* Strings are sequences of one-character strings, so that includes,      *)
(* split, slice and replace are computed on characters as the code does.  *)
(* The three endpoint URLs are kept as one-element sequences (a prefix    *)
(* whose characters the code never inspects); string concatenation is \o. *)
(* The JavaScript value undefined is the one-element sequence Undefined,  *)
(* which is no character string; Str gives its text in a concatenation.   *)
(***************************************************************************)
EXTENDS Integers, Sequences, FiniteSets, TLC

VARIABLES
    strategy,   \* the FacebookStrategy instance, or the outcome of `new`
    req,        \* per inbound request: the position and locals of its handler
    pure        \* argument and result of a direct call of a pure method

vars == <<strategy, req, pure>>

----------------------------------------------------------------------------
(* Bounds *)

\* most '&'-joined parameters in an inbound query string
MaxParams == 2
\* most entries of an options object handed to constructURI directly
MaxEntries == 2
\* inbound requests served by one instance
NumReq == 2
\* most pieces (escapes or other characters) of a string handed to parseCode
MaxCodeParts == 3
\* the same for the strings decoded with the table entries in any order
MaxOrderParts == 2

----------------------------------------------------------------------------
(* JavaScript strings *)

Undefined == <<"undefined">>

Str(v) == IF v = Undefined THEN <<"u","n","d","e","f","i","n","e","d">> ELSE v

\* !v for v a string or undefined
Falsy(v) == v = Undefined \/ v = <<>>

\* String.prototype.indexOf, 1-based; 0 when sub does not occur
IndexOf(s, sub) ==
    LET hits == { i \in 1..(Len(s) - Len(sub) + 1) : SubSeq(s, i, i + Len(sub) - 1) = sub }
    IN  IF hits = {} THEN 0 ELSE CHOOSE i \in hits : \A j \in hits : i <= j

\* String.prototype.includes
Includes(s, sub) == IndexOf(s, sub) # 0

\* String.prototype.slice(from, to) for 0 <= from <= to (0-based, to exclusive)
Slice(s, from, to) ==
    LET hi == IF to > Len(s) THEN Len(s) ELSE to
    IN  IF from >= hi THEN <<>> ELSE SubSeq(s, from + 1, hi)

\* String.prototype.split(sep) for a one-character separator
RECURSIVE Split(_, _)
Split(s, sep) ==
    LET i == IndexOf(s, <<sep>>)
    IN  IF i = 0 THEN <<s>>
        ELSE <<SubSeq(s, 1, i - 1)>> \o Split(SubSeq(s, i + 1, Len(s)), sep)

\* String.prototype.replace(from, to) with string arguments: the first occurrence
Replace(s, from, to) ==
    LET i == IndexOf(s, from)
    IN  IF i = 0 THEN s
        ELSE SubSeq(s, 1, i - 1) \o to \o SubSeq(s, i + Len(from), Len(s))

----------------------------------------------------------------------------
(* Fixed names *)

name        == <<"f","a","c","e","b","o","o","k">>
authURL     == <<"https://www.facebook.com/v9.0/dialog/oauth?">>
tokenURL    == <<"https://graph.facebook.com/v9.0/oauth/access_token?">>
authDataURL == <<"https://graph.facebook.com/debug_token?">>

client_id     == <<"c","l","i","e","n","t","_","i","d">>
client_secret == <<"c","l","i","e","n","t","_","s","e","c","r","e","t">>
redirect_uri  == <<"r","e","d","i","r","e","c","t","_","u","r","i">>
state         == <<"s","t","a","t","e">>
scope         == <<"s","c","o","p","e">>
code          == <<"c","o","d","e">>
error         == <<"e","r","r","o","r">>
input_token   == <<"i","n","p","u","t","_","t","o","k","e","n">>
access_token  == <<"a","c","c","e","s","s","_","t","o","k","e","n">>

----------------------------------------------------------------------------
(* Options objects: the ordered list of their own [key, value] entries *)

\* options[key]: undefined when the object has no such property
Get(options, key) ==
    IF \E i \in 1..Len(options) : options[i][1] = key
    THEN options[CHOOSE i \in 1..Len(options) : options[i][1] = key][2]
    ELSE Undefined

----------------------------------------------------------------------------
(* constructURI *)

RECURSIVE constructLoop(_, _, _, _)
constructLoop(paramArray, skip, i, paramString) ==
    IF i > Len(paramArray) THEN paramString
    ELSE LET key   == paramArray[i][1]
             value == paramArray[i][2]
         IN  IF key = skip
             THEN constructLoop(paramArray, skip, i + 1, paramString)
             ELSE constructLoop(paramArray, skip, i + 1,
                                paramString \o Str(key) \o <<"=">> \o Str(value) \o <<"&">>)

\* a slip: the trailing separator is left in place
constructURI_nostrip(options, skip) ==
    constructLoop(options, skip, 1, <<>>)

\* a slip: the skip key is ignored
constructURI_noskip(options, skip) ==
    LET paramString == constructLoop(options, Undefined, 1, <<>>)
    IN  IF Len(paramString) > 0 /\ paramString[Len(paramString)] = "&"
        THEN SubSeq(paramString, 1, Len(paramString) - 1)
        ELSE paramString

constructURI(options, skip) ==
    LET paramString == constructLoop(options, skip, 1, <<>>)
    IN  IF Len(paramString) > 0 /\ paramString[Len(paramString)] = "&"
        THEN SubSeq(paramString, 1, Len(paramString) - 1)
        ELSE paramString

----------------------------------------------------------------------------
(* parseCode *)

\* a slip: the table is extended by the escape of '%' itself
replacements_withPercent ==
    << << <<"%","2","4">>, <<"$">> >>,
       << <<"%","2","6">>, <<"&">> >>,
       << <<"%","2","B">>, <<"+">> >>,
       << <<"%","2","C">>, <<",">> >>,
       << <<"%","2","F">>, <<"/">> >>,
       << <<"%","3","A">>, <<":">> >>,
       << <<"%","3","B">>, <<";">> >>,
       << <<"%","3","D">>, <<"=">> >>,
       << <<"%","3","F">>, <<"?">> >>,
       << <<"%","4","0">>, <<"@">> >>,
       << <<"%","2","5">>, <<"%">> >> >>

replacements ==
    << << <<"%","2","4">>, <<"$">> >>,
       << <<"%","2","6">>, <<"&">> >>,
       << <<"%","2","B">>, <<"+">> >>,
       << <<"%","2","C">>, <<",">> >>,
       << <<"%","2","F">>, <<"/">> >>,
       << <<"%","3","A">>, <<":">> >>,
       << <<"%","3","B">>, <<";">> >>,
       << <<"%","3","D">>, <<"=">> >>,
       << <<"%","3","F">>, <<"?">> >>,
       << <<"%","4","0">>, <<"@">> >> >>

\* a slip: `if` for `while`, only the first occurrence is replaced
replaceWhile_once(encodedCode, from, to) == Replace(encodedCode, from, to)

\* the inner while loop: replace the first occurrence until none is left
RECURSIVE replaceWhile(_, _, _)
replaceWhile(encodedCode, from, to) ==
    IF Includes(encodedCode, from)
    THEN replaceWhile(Replace(encodedCode, from, to), from, to)
    ELSE encodedCode

\* a slip: the loop stops one entry early (i < length - 1)
RECURSIVE parseLoop_short(_, _, _)
parseLoop_short(encodedCode, table, i) ==
    IF i >= Len(table) THEN encodedCode
    ELSE parseLoop_short(replaceWhile(encodedCode, table[i][1], table[i][2]), table, i + 1)

RECURSIVE parseLoop(_, _, _)
parseLoop(encodedCode, table, i) ==
    IF i > Len(table) THEN encodedCode
    ELSE parseLoop(replaceWhile(encodedCode, table[i][1], table[i][2]), table, i + 1)

parseCode(encodedCode) == parseLoop(encodedCode, replacements, 1)

----------------------------------------------------------------------------
(* Inputs *)

RequiredKeys == {client_id, client_secret, redirect_uri, state}

\* the value the host configures under each key
ConfigValue(key) ==
    CASE key = client_id     -> <<"I">>
      [] key = client_secret -> <<"S">>
      [] key = redirect_uri  -> <<"R">>
      [] key = state         -> <<"X">>
      [] OTHER               -> <<"P">>

\* the orders in which the host may write the properties of its options literal
KeyOrders ==
    { <<client_id, client_secret, redirect_uri, state, scope>>,
      <<client_id, redirect_uri, state, scope, client_secret>> }

\* an options literal: each key left out, set to '' or set to its value
OptionsOf(order, how) ==
    LET kept == SelectSeq(order, LAMBDA k : how[k] # "absent")
    IN  [ i \in 1..Len(kept) |->
            << kept[i], IF how[kept[i]] = "empty" THEN <<>> ELSE ConfigValue(kept[i]) >> ]

OptionsInputs ==
    { OptionsOf(order, how) :
        order \in KeyOrders,
        how \in [ RequiredKeys \cup {scope} -> {"absent", "empty", "value"} ] }

\* one parameter of an inbound query string: a bare key, or key=value
ParamKeys   == { code, error, state }
ParamValues ==
    { <<"a">>, <<"a","%","3","D","b">>, <<"a","%","3","D","%","2","6">>, <<"a","=","b">> }
Params      == ParamKeys \cup { k \o <<"=">> \o v : k \in ParamKeys, v \in ParamValues }

RECURSIVE Join(_, _)
Join(parts, sep) ==
    IF Len(parts) = 0 THEN <<>>
    ELSE IF Len(parts) = 1 THEN parts[1]
    ELSE parts[1] \o <<sep>> \o Join(Tail(parts), sep)

\* ctx.request.url.search: '' or '?' followed by at least one parameter
Searches ==
    { <<>> } \cup
    { <<"?">> \o Join(ps, "&") : ps \in UNION { [1..n -> Params] : n \in 1..MaxParams } }

\* what `await fetch(...)` then `await data.json()` can give for the token call:
\* fetch rejects, json() rejects, the body is null, or it is an object
\* (access_token, token_type, expires_in: all there or all missing)
TokenFields ==
    { <<Undefined, Undefined, Undefined>>,
      << <<"T">>, <<"b","e","a","r","e","r">>, <<"3600">> >>,
      << <<"V">>, <<"b","e","a","r","e","r">>, <<"3600">> >> }

TokenResponses ==
    { [kind |-> k, type |-> Undefined, access_token |-> Undefined,
       token_type |-> Undefined, expires_in |-> Undefined] :
        k \in {"reject", "badjson", "null"} }
    \cup
    { [kind |-> "object", type |-> t, access_token |-> f[1],
       token_type |-> f[2], expires_in |-> f[3]] :
        t \in { Undefined, <<"oAuthException">>, <<"OAuthException">> },
        f \in TokenFields }

\* the same for the debug_token call; data is the body's `data` member
AuthDataResponses ==
    { [kind |-> k, data |-> "undefined", user_id |-> Undefined] :
        k \in {"reject", "badjson", "null"} }
    \cup
    { [kind |-> "object", data |-> d, user_id |-> Undefined] : d \in {"undefined", "null"} }
    \cup
    { [kind |-> "object", data |-> "object", user_id |-> u] :
        u \in { Undefined, <<"U","1">>, <<"U","2">> } }

----------------------------------------------------------------------------
(* Values a handler returns *)

Pending         == [kind |-> "pending"]
ReturnUndefined == [kind |-> "undefined"]
\* an exception that leaves the async method: its promise rejects
Rejected(e)     == [kind |-> "rejected", cause |-> e]
ErrorValue(m, c) == [kind |-> "Error", message |-> m, cause |-> c]

DeniedError ==
    ErrorValue("ERROR in getAuthToken: Received an error from auth token code request.", "none")
OAuthError ==
    ErrorValue("ERROR in getAuthToken: Token request threw OAuth exception.", "none")
TokenError(c) ==
    ErrorValue("ERROR in getAuthToken: Unable to obtain token - ", c)
AuthDataError(c) ==
    ErrorValue("ERROR in getAuthData: Unable to obtain auth data - ", c)

AuthDataValue(a) == [kind |-> "AuthData", authData |-> a]

----------------------------------------------------------------------------
(* State *)

NoStrategy ==
    [status |-> "none", arg |-> Undefined, options |-> Undefined, uriFromParams |-> Undefined]

NoResponse == [kind |-> "none"]

\* getAuthData has not built its authData object yet
NoAuthData == [tokenData |-> NoResponse, userInfo |-> NoResponse]

Idle ==
    [pc |-> "idle", search |-> Undefined, called |-> {},
     redirects |-> <<>>, fetches |-> <<>>,
     URI2_0 |-> Undefined, authCode |-> Undefined,
     tokenResponse |-> NoResponse, authDataResponse |-> NoResponse,
     authData |-> NoAuthData, result |-> Pending]

Requests == 1..NumReq

Init ==
    /\ strategy = NoStrategy
    /\ req = [r \in Requests |-> Idle]
    /\ pure = [method |-> "none"]

----------------------------------------------------------------------------
(* constructor *)

\* a slip: `state` is not among the required arguments
constructor_nostate(options) ==
    IF Falsy(Get(options, client_id)) \/ Falsy(Get(options, redirect_uri))
       \/ Falsy(Get(options, client_secret))
    THEN [status |-> "threw", arg |-> options, options |-> Undefined,
          uriFromParams |-> Undefined]
    ELSE [status |-> "ok", arg |-> options, options |-> options,
          uriFromParams |-> constructURI(options, client_secret)]

constructor(options) ==
    IF Falsy(Get(options, client_id)) \/ Falsy(Get(options, redirect_uri))
       \/ Falsy(Get(options, state)) \/ Falsy(Get(options, client_secret))
    THEN [status |-> "threw", arg |-> options, options |-> Undefined,
          uriFromParams |-> Undefined]
    ELSE [status |-> "ok", arg |-> options, options |-> options,
          uriFromParams |-> constructURI(options, client_secret)]

New(options) ==
    /\ strategy.status = "none"
    /\ strategy' = constructor(options)
    /\ UNCHANGED <<req, pure>>

----------------------------------------------------------------------------
(* getAuthData: the part up to `await fetch`, and the part after it *)

\* a slip: the authorization code is sent as input_token
getAuthData_codeAsToken(rq, parsed) ==
    LET authData ==
            [tokenData |-> [access_token |-> parsed.access_token,
                            token_type   |-> parsed.token_type,
                            expires_in   |-> parsed.expires_in],
             userInfo  |-> [provider |-> <<>>, providerUserId |-> <<>>]]
        authOptions ==
            << <<input_token, rq.authCode>>,
               <<access_token, Str(Get(strategy.options, client_id)) \o <<"|">>
                               \o Str(Get(strategy.options, client_secret))>> >>
    IN  [rq EXCEPT !.pc = "awaitAuthData",
                   !.called = @ \cup {"getAuthData"},
                   !.authData = authData,
                   !.fetches = Append(@, authDataURL \o constructURI(authOptions, Undefined))]

getAuthData(rq, parsed) ==
    LET authData ==
            [tokenData |-> [access_token |-> parsed.access_token,
                            token_type   |-> parsed.token_type,
                            expires_in   |-> parsed.expires_in],
             userInfo  |-> [provider |-> <<>>, providerUserId |-> <<>>]]
        authOptions ==
            << <<input_token, authData.tokenData.access_token>>,
               <<access_token, Str(Get(strategy.options, client_id)) \o <<"|">>
                               \o Str(Get(strategy.options, client_secret))>> >>
    IN  [rq EXCEPT !.pc = "awaitAuthData",
                   !.called = @ \cup {"getAuthData"},
                   !.authData = authData,
                   !.fetches = Append(@, authDataURL \o constructURI(authOptions, Undefined))]

\* a slip: a rejected debug_token call is issued again
getAuthDataResume_retry(rq, data) ==
    LET done == [rq EXCEPT !.pc = "done", !.authDataResponse = data]
    IN  IF data.kind = "reject"
        THEN [rq EXCEPT !.authDataResponse = data,
                        !.fetches = Append(@, rq.fetches[Len(rq.fetches)])]
        ELSE IF data.kind = "badjson"
        THEN [done EXCEPT !.result = AuthDataError(data.kind)]
        ELSE IF data.kind = "null" \/ data.data # "object"
        THEN [done EXCEPT !.result = AuthDataError("TypeError")]
        ELSE LET authData ==
                     [rq.authData EXCEPT
                        !.userInfo = [provider |-> name, providerUserId |-> data.user_id]]
             IN  [done EXCEPT !.authData = authData, !.result = AuthDataValue(authData)]

\* a slip: a failure of the debug_token call is reported by the catch of getAuthToken
getAuthDataResume_rewrap(rq, data) ==
    LET done == [rq EXCEPT !.pc = "done", !.authDataResponse = data]
    IN  IF data.kind \in {"reject", "badjson"}
        THEN [done EXCEPT !.result = TokenError(data.kind)]
        ELSE IF data.kind = "null" \/ data.data # "object"
        THEN [done EXCEPT !.result = TokenError("TypeError")]
        ELSE LET authData ==
                     [rq.authData EXCEPT
                        !.userInfo = [provider |-> name, providerUserId |-> data.user_id]]
             IN  [done EXCEPT !.authData = authData, !.result = AuthDataValue(authData)]

\* a slip: the placeholder userInfo is returned as it is
getAuthDataResume_placeholder(rq, data) ==
    LET done == [rq EXCEPT !.pc = "done", !.authDataResponse = data]
    IN  IF data.kind \in {"reject", "badjson"}
        THEN [done EXCEPT !.result = AuthDataError(data.kind)]
        ELSE IF data.kind = "null" \/ data.data # "object"
        THEN [done EXCEPT !.result = AuthDataError("TypeError")]
        ELSE [done EXCEPT !.result = AuthDataValue(rq.authData)]

getAuthDataResume(rq, data) ==
    LET done == [rq EXCEPT !.pc = "done", !.authDataResponse = data]
    IN  IF data.kind \in {"reject", "badjson"}
        THEN [done EXCEPT !.result = AuthDataError(data.kind)]
        ELSE IF data.kind = "null" \/ data.data # "object"
        THEN [done EXCEPT !.result = AuthDataError("TypeError")]
        ELSE LET authData ==
                     [rq.authData EXCEPT
                        !.userInfo = [provider |-> name, providerUserId |-> data.user_id]]
             IN  [done EXCEPT !.authData = authData, !.result = AuthDataValue(authData)]

----------------------------------------------------------------------------
(* getAuthToken: the part up to `await fetch`, and the part after it *)

\* a slip: the denial check is left out
getAuthToken_nocheck(rq, OGURI) ==
    LET in == [rq EXCEPT !.called = @ \cup {"getAuthToken"}]
        URI1 == Split(OGURI, "=")
    IN  IF Len(URI1) < 2
        THEN [in EXCEPT !.pc = "done", !.result = Rejected("TypeError")]
        ELSE LET URI2 == Split(URI1[2], "&")
                 authCode == parseCode(URI2[1])
                 tokenOptions ==
                     << <<client_id, Get(strategy.options, client_id)>>,
                        <<redirect_uri, Get(strategy.options, redirect_uri)>>,
                        <<client_secret, Get(strategy.options, client_secret)>>,
                        <<code, authCode>> >>
             IN  [in EXCEPT !.pc = "awaitToken",
                            !.URI2_0 = URI2[1],
                            !.authCode = authCode,
                            !.fetches = Append(@, tokenURL \o constructURI(tokenOptions, Undefined))]

getAuthToken(rq, OGURI) ==
    LET in == [rq EXCEPT !.called = @ \cup {"getAuthToken"}]
        URI1 == Split(OGURI, "=")
    IN  IF Includes(OGURI, error)
        THEN [in EXCEPT !.pc = "done", !.result = DeniedError]
        \* URI1[1] is undefined: .split throws a TypeError outside any try block
        ELSE IF Len(URI1) < 2
        THEN [in EXCEPT !.pc = "done", !.result = Rejected("TypeError")]
        ELSE LET URI2 == Split(URI1[2], "&")
                 authCode == parseCode(URI2[1])
                 tokenOptions ==
                     << <<client_id, Get(strategy.options, client_id)>>,
                        <<redirect_uri, Get(strategy.options, redirect_uri)>>,
                        <<client_secret, Get(strategy.options, client_secret)>>,
                        <<code, authCode>> >>
             IN  [in EXCEPT !.pc = "awaitToken",
                            !.URI2_0 = URI2[1],
                            !.authCode = authCode,
                            !.fetches = Append(@, tokenURL \o constructURI(tokenOptions, Undefined))]

\* a slip: the exception marker is not looked at
getAuthTokenResume_nomarker(rq, data) ==
    LET got == [rq EXCEPT !.tokenResponse = data]
    IN  IF data.kind \in {"reject", "badjson"}
        THEN [got EXCEPT !.pc = "done", !.result = TokenError(data.kind)]
        ELSE IF data.kind = "null"
        THEN [got EXCEPT !.pc = "done", !.result = TokenError("TypeError")]
        ELSE getAuthData(got, data)

getAuthTokenResume(rq, data) ==
    LET got == [rq EXCEPT !.tokenResponse = data]
    IN  IF data.kind \in {"reject", "badjson"}
        THEN [got EXCEPT !.pc = "done", !.result = TokenError(data.kind)]
        \* data.type of null throws a TypeError inside the try block
        ELSE IF data.kind = "null"
        THEN [got EXCEPT !.pc = "done", !.result = TokenError("TypeError")]
        ELSE IF data.type = <<"oAuthException">>
        THEN [got EXCEPT !.pc = "done", !.result = OAuthError]
        ELSE getAuthData(got, data)

----------------------------------------------------------------------------
(* authorize and router *)

authorize(rq) ==
    [rq EXCEPT !.pc = "done",
               !.called = @ \cup {"authorize"},
               !.redirects = Append(@, authURL \o strategy.uriFromParams),
               !.result = ReturnUndefined]

\* a slip: the four characters are taken from the start of the string
router_slice0(rq, search) ==
    LET in == [rq EXCEPT !.search = search, !.called = @ \cup {"router"}]
    IN  IF search = <<>> THEN authorize(in)
        ELSE IF Slice(search, 0, 4) = code THEN getAuthToken(in, search)
        ELSE [in EXCEPT !.pc = "done", !.result = ReturnUndefined]

router(rq, search) ==
    LET in == [rq EXCEPT !.search = search, !.called = @ \cup {"router"}]
    IN  IF search = <<>> THEN authorize(in)
        ELSE IF Slice(search, 1, 5) = code THEN getAuthToken(in, search)
        ELSE [in EXCEPT !.pc = "done", !.result = ReturnUndefined]

----------------------------------------------------------------------------
(* Actions *)

\* the host calls strategy.router for inbound request r
Router(r, search) ==
    /\ strategy.status = "ok"
    /\ req[r].pc = "idle"
    /\ req' = [req EXCEPT ![r] = router(@, search)]
    /\ UNCHANGED <<strategy, pure>>

\* the token call of request r settles and getAuthToken runs on
TokenFetchSettles(r, data) ==
    /\ req[r].pc = "awaitToken"
    /\ req' = [req EXCEPT ![r] = getAuthTokenResume(@, data)]
    /\ UNCHANGED <<strategy, pure>>

\* the debug_token call of request r settles and getAuthData runs on
AuthDataFetchSettles(r, data) ==
    /\ req[r].pc = "awaitAuthData"
    /\ req' = [req EXCEPT ![r] = getAuthDataResume(@, data)]
    /\ UNCHANGED <<strategy, pure>>

\* one inbound request on one instance
Next ==
    \/ strategy.status = "none" /\ \E options \in OptionsInputs : New(options)
    \/ strategy.status = "ok" /\ req[1].pc = "idle" /\ \E search \in Searches : Router(1, search)
    \/ req[1].pc = "awaitToken" /\ \E data \in TokenResponses : TokenFetchSettles(1, data)
    \/ req[1].pc = "awaitAuthData" /\ \E data \in AuthDataResponses : AuthDataFetchSettles(1, data)

Spec == Init /\ [][Next]_vars

----------------------------------------------------------------------------
(* Direct calls of constructURI on arbitrary options objects *)

BuildKeys   == { <<"a">>, <<"b">>, <<"c">> }
BuildValues == { <<>>, <<"1">>, <<"1","&">> }

\* objects of at most MaxEntries properties: the keys of one object differ
BuildOptions ==
    UNION { { o \in [1..n -> BuildKeys \X BuildValues] :
                \A i, j \in 1..n : i # j => o[i][1] # o[j][1] } : n \in 0..MaxEntries }

InitBuild ==
    /\ strategy = NoStrategy
    /\ req = [r \in Requests |-> Idle]
    /\ pure \in { [method |-> "constructURI", options |-> o, skip |-> k,
                   returned |-> FALSE, value |-> Undefined] :
                    o \in BuildOptions, k \in BuildKeys \cup {Undefined} }

CallConstructURI ==
    /\ pure.method = "constructURI"
    /\ ~pure.returned
    /\ pure' = [pure EXCEPT !.returned = TRUE,
                            !.value = constructURI(pure.options, pure.skip)]
    /\ UNCHANGED <<strategy, req>>

NextBuild == CallConstructURI

SpecBuild == InitBuild /\ [][NextBuild]_vars

----------------------------------------------------------------------------
(* Vocabulary of the properties *)

Entered(r, method) == method \in req[r].called

Done(r) == req[r].pc = "done"

\* the text after the first occurrence of the character c
AfterFirst(s, c) == SubSeq(s, IndexOf(s, <<c>>) + 1, Len(s))

\* the '&'-separated pieces of a query string, its leading '?' dropped
Pieces(search) == IF search = <<>> THEN <<>> ELSE Split(Tail(search), "&")

\* the part of a piece before its first '='
KeyOf(piece) == Split(piece, "=")[1]

\* some parameter of the query string is code=...
HasCodeParam(search) ==
    \E i \in 1..Len(Pieces(search)) : Slice(Pieces(search)[i], 0, 5) = code \o <<"=">>

\* the query part of an outbound URL: what follows the endpoint prefix
QueryOf(url) == Tail(url)

BeginsWithAmp(s) == Len(s) > 0 /\ s[1] = "&"
EndsWithAmp(s)   == Len(s) > 0 /\ s[Len(s)] = "&"

IsOutcome(result) == result.kind \in {"AuthData", "Error"}

----------------------------------------------------------------------------
(* Properties *)

\* C1: whenever getAuthToken runs on a query string that contains 'error', it
\* returns the authorization-denied error at once, and the request has issued
\* no outbound GET (token exchange or identity lookup) and no redirect.
C1_DeniedWithoutExchange ==
    \A r \in Requests :
        (Entered(r, "getAuthToken") /\ Includes(req[r].search, error))
        => /\ Done(r)
           /\ req[r].result = DeniedError
           /\ req[r].fetches = <<>>
           /\ req[r].redirects = <<>>
           /\ ~Entered(r, "getAuthData")

C1_Witness ==
    \E r \in Requests :
        /\ Entered(r, "getAuthToken")
        /\ Includes(req[r].search, error \o <<"=">>)
        /\ req[r].result = DeniedError

\* C2: once a request's token response is a JSON object whose type is
\* 'oAuthException', the request has ended with the token-exchange error and
\* its only outbound GET is the token exchange: no identity lookup is issued.
C2_OAuthExceptionStops ==
    \A r \in Requests :
        (req[r].tokenResponse.kind = "object"
            /\ req[r].tokenResponse.type = <<"oAuthException">>)
        => /\ Done(r)
           /\ req[r].result = OAuthError
           /\ ~Entered(r, "getAuthData")
           /\ Len(req[r].fetches) = 1
           /\ req[r].fetches[1][1] = tokenURL[1]

C2_Witness ==
    \E r \in Requests :
        /\ req[r].tokenResponse.kind = "object"
        /\ req[r].tokenResponse.type = <<"oAuthException">>
        /\ req[r].tokenResponse.access_token = <<"T">>
        /\ req[r].result = OAuthError

\* C3 as claimed: a finished request whose non-empty query string has a code
\* parameter, at any position, has an AuthData record or an error value as the
\* router's result.
C3_Original ==
    \A r \in Requests :
        (Done(r) /\ req[r].search # <<>> /\ HasCodeParam(req[r].search))
        => IsOutcome(req[r].result)

\* C3 as amended: on a non-empty query string the router runs the exchange
\* sequence exactly when characters 1 to 4 (right after '?') are 'code'; then
\* the result is an AuthData record, an error value or, only for a query string
\* without '=', a rejection; otherwise the result is absent and nothing is sent.
C3_CodeFirstRunsExchange ==
    \A r \in Requests :
        (Entered(r, "router") /\ req[r].search # <<>>)
        => /\ Entered(r, "getAuthToken") <=> Slice(req[r].search, 1, 5) = code
           /\ (Entered(r, "getAuthToken") /\ Done(r))
                => \/ IsOutcome(req[r].result)
                   \/ /\ req[r].result = Rejected("TypeError")
                      /\ ~Includes(req[r].search, <<"=">>)
           /\ ~Entered(r, "getAuthToken")
                => /\ Done(r)
                   /\ req[r].result = ReturnUndefined
                   /\ req[r].fetches = <<>>
                   /\ req[r].redirects = <<>>

C3_Witness ==
    \E r \in Requests :
        /\ HasCodeParam(req[r].search)
        /\ Len(Pieces(req[r].search)) > 1
        /\ Entered(r, "getAuthToken")
        /\ req[r].result.kind = "AuthData"

\* C4: a finished request whose query string signals denial (contains
\* 'error=') has the authorization-denied error as the router's result and
\* has made no outbound request.
C4_DenialSurfaced ==
    \A r \in Requests :
        (Done(r) /\ Includes(req[r].search, error \o <<"=">>))
        => /\ req[r].result = DeniedError
           /\ req[r].fetches = <<>>

\* C5: a finished request whose non-empty query string begins with 'code'
\* (right after '?') has returned an AuthData record or an error value: no
\* exception has left the handler.
C5_NoExceptionEscapes ==
    \A r \in Requests :
        (Done(r) /\ req[r].search # <<>> /\ Slice(req[r].search, 1, 5) = code)
        => IsOutcome(req[r].result)

\* C6: a request with an empty query string issues exactly one redirect, to
\* authURL followed by the query string computed at construction
\* (constructURI of the constructor's options, skipping client_secret), issues
\* no outbound GET, and no '&'-separated piece of the target has the key
\* client_secret.
C6_RedirectWithoutSecret ==
    \A r \in Requests :
        (Entered(r, "router") /\ req[r].search = <<>>)
        => /\ Done(r)
           /\ req[r].called = {"router", "authorize"}
           /\ req[r].redirects = << authURL \o strategy.uriFromParams >>
           /\ strategy.uriFromParams = constructURI(strategy.arg, client_secret)
           /\ req[r].fetches = <<>>
           /\ LET pieces == Split(QueryOf(req[r].redirects[1]), "&")
              IN  \A i \in 1..Len(pieces) : KeyOf(pieces[i]) # client_secret

C6_Witness ==
    \E r \in Requests :
        /\ req[r].search = <<>>
        /\ Len(req[r].redirects) = 1
        /\ strategy.arg[Len(strategy.arg)][1] = client_secret
        /\ Len(Split(QueryOf(req[r].redirects[1]), "&")) = 4

\* C7: a returned AuthData carries the access_token, token_type and expires_in
\* of this request's token response, the provider name 'facebook' and the
\* data.user_id of this request's identity response; its userInfo is never the
\* empty placeholder.
C7_AuthDataFromResponses ==
    \A r \in Requests :
        req[r].result.kind = "AuthData"
        => LET a == req[r].result.authData
           IN  /\ a.tokenData.access_token = req[r].tokenResponse.access_token
               /\ a.tokenData.token_type = req[r].tokenResponse.token_type
               /\ a.tokenData.expires_in = req[r].tokenResponse.expires_in
               /\ a.userInfo.provider = name
               /\ req[r].authDataResponse.kind = "object"
               /\ req[r].authDataResponse.data = "object"
               /\ a.userInfo.providerUserId = req[r].authDataResponse.user_id
               /\ a.userInfo # [provider |-> <<>>, providerUserId |-> <<>>]

C7_Witness ==
    \E r \in Requests :
        /\ req[r].result.kind = "AuthData"
        /\ req[r].result.authData.tokenData =
               [access_token |-> <<"T">>, token_type |-> <<"b","e","a","r","e","r">>,
                expires_in |-> <<"3600">>]
        /\ req[r].result.authData.userInfo =
               [provider |-> name, providerUserId |-> <<"U","1">>]

\* C8: construction throws exactly when one of client_id, client_secret,
\* redirect_uri, state is absent or empty; then there is no instance (no
\* options, no precomputed query string) and no request has done anything;
\* otherwise the instance holds the options it was given.
C8_ConstructionChecksRequired ==
    strategy.status # "none"
    => LET missing == \E k \in RequiredKeys :
                          \/ \A i \in 1..Len(strategy.arg) : strategy.arg[i][1] # k
                          \/ \E i \in 1..Len(strategy.arg) :
                                 strategy.arg[i] = <<k, <<>>>>
       IN  /\ strategy.status = "threw" <=> missing
           /\ strategy.status = "threw"
                => /\ strategy.options = Undefined
                   /\ strategy.uriFromParams = Undefined
                   /\ \A r \in Requests : req[r] = Idle
           /\ strategy.status = "ok" => strategy.options = strategy.arg

C8_Witness ==
    /\ strategy.status = "threw"
    /\ Get(strategy.arg, client_id) = <<>>
    /\ \A k \in RequiredKeys \ {client_id} : ~Falsy(Get(strategy.arg, k))

\* C9: whenever the exchange sequence has extracted a code fragment, the
\* fragment is the first '&'-separated segment of everything after the first
\* '=' of the raw query string, and the code is parseCode of that fragment.
C9_FragmentAfterFirstEquals ==
    \A r \in Requests :
        req[r].URI2_0 # Undefined
        => /\ req[r].URI2_0 = Split(AfterFirst(req[r].search, "="), "&")[1]
           /\ req[r].authCode = parseCode(req[r].URI2_0)

\* C10 as claimed: the string constructURI returns neither begins nor ends
\* with '&', whatever the entries and the skip key.
C10_Original ==
    (pure.method = "constructURI" /\ pure.returned)
    => /\ ~BeginsWithAmp(pure.value)
       /\ ~EndsWithAmp(pure.value)

\* C10 as amended: constructURI strips exactly one trailing '&': for keys that
\* do not begin with '&', the string it returns does not begin with '&', and it
\* ends with '&' exactly when the last entry that is not skipped has a value
\* ending with '&'.
C10_SeparatorOnlyFromEntries ==
    (pure.method = "constructURI" /\ pure.returned)
    => LET kept  == SelectSeq(pure.options, LAMBDA e : e[1] # pure.skip)
           last  == kept[Len(kept)]
           out   == pure.value
       IN  /\ ~BeginsWithAmp(out)
           /\ EndsWithAmp(out) <=> (Len(kept) > 0 /\ EndsWithAmp(last[2]))

C10_Witness ==
    /\ pure.method = "constructURI"
    /\ pure.returned
    /\ Len(pure.options) = 2
    /\ pure.options[2][1] = pure.skip
    /\ pure.value = <<"a","=","1">>

\* C11: constructURI returns exactly the strings key=value of the entries whose
\* key is not the skip key, each once, in the order of the entries, joined by
\* single '&'; hence '' for an object without entries and for an object whose
\* only entry is skipped.
C11_JoinedPairsInOrder ==
    (pure.method = "constructURI" /\ pure.returned)
    => LET kept  == SelectSeq(pure.options, LAMBDA e : e[1] # pure.skip)
           pairs == [ i \in 1..Len(kept) |-> kept[i][1] \o <<"=">> \o kept[i][2] ]
       IN  /\ pure.value = Join(pairs, "&")
           /\ Len(kept) = 0 => pure.value = <<>>

C11_Witness ==
    /\ pure.method = "constructURI"
    /\ pure.returned
    /\ pure.options = << << <<"b">>, <<"1">> >>, << <<"a">>, <<>> >> >>
    /\ pure.skip = Undefined
    /\ pure.value = <<"b","=","1","&","a","=">>

----------------------------------------------------------------------------
(* Direct calls of parseCode on arbitrary strings *)

\* the pieces a string is put together from: the ten escapes of the table,
\* two escapes that are not in it, and characters that could complete or
\* break an escape
CodePieces ==
    { replacements[i][1] : i \in 1..Len(replacements) }
    \cup { <<"%","2","5">>, <<"%","2","0">>, <<"%">>, <<"%","2">>, <<"2","4">>,
           <<"4">>, <<"a">> }

RECURSIVE Concat(_)
Concat(parts) == IF Len(parts) = 0 THEN <<>> ELSE parts[1] \o Concat(Tail(parts))

CodeInputs ==
    { Concat(ps) : ps \in UNION { [1..n -> CodePieces] : n \in 0..MaxCodeParts } }

InitParse ==
    /\ strategy = NoStrategy
    /\ req = [r \in Requests |-> Idle]
    /\ pure \in { [method |-> "parseCode", encodedCode |-> s,
                   returned |-> FALSE, value |-> Undefined] : s \in CodeInputs }

CallParseCode ==
    /\ pure.method = "parseCode"
    /\ ~pure.returned
    /\ pure' = [pure EXCEPT !.returned = TRUE, !.value = parseCode(pure.encodedCode)]
    /\ UNCHANGED <<strategy, req>>

NextParse == CallParseCode

SpecParse == InitParse /\ [][NextParse]_vars

\* the literal of a table escape that s begins with, or <<>> when s begins with none
LiteralAt(s) ==
    LET hits == { i \in 1..Len(replacements) : Slice(s, 0, 3) = replacements[i][1] }
    IN  IF hits = {} THEN <<>> ELSE replacements[CHOOSE i \in hits : TRUE][2]

\* one pass from left to right: a table escape becomes its literal, any other
\* character is copied
RECURSIVE SinglePass(_)
SinglePass(s) ==
    IF Len(s) = 0 THEN <<>>
    ELSE IF LiteralAt(s) # <<>> THEN LiteralAt(s) \o SinglePass(SubSeq(s, 4, Len(s)))
    ELSE <<s[1]>> \o SinglePass(Tail(s))

HasEscape(s) == \E i \in 1..Len(replacements) : Includes(s, replacements[i][1])

\* C12: parseCode returns, and what it returns is the input with every
\* occurrence of the ten table escapes replaced by its literal in one pass from
\* left to right, every other character (other percent-escapes included) kept.
C12_SinglePassDecode ==
    (pure.method = "parseCode" /\ pure.returned)
    => pure.value = SinglePass(pure.encodedCode)

C12_Witness ==
    /\ pure.method = "parseCode"
    /\ pure.returned
    /\ pure.encodedCode = <<"%","2","C","%","2","C","%","2","0">>
    /\ pure.value = <<",",",","%","2","0">>

\* C18: what parseCode returns contains none of the ten table escapes, so
\* parseCode of it gives it back; and a string without table escapes is
\* returned as it is.
C18_DecodedHasNoEscape ==
    (pure.method = "parseCode" /\ pure.returned)
    => /\ ~HasEscape(pure.value)
       /\ parseCode(pure.value) = pure.value
       /\ ~HasEscape(pure.encodedCode) => pure.value = pure.encodedCode

C18_Witness ==
    /\ pure.method = "parseCode"
    /\ pure.returned
    /\ pure.encodedCode = <<"%","%","2","4","2","4">>
    /\ pure.value = <<"%","$","2","4">>

----------------------------------------------------------------------------
(* parseCode with the entries of the table taken in any order *)

OrderPieces ==
    { <<"%","2","4">>, <<"%","3","D">>, <<"%","2","5">>, <<"%">>, <<"%","2">>, <<"2","4">> }

OrderInputs ==
    { Concat(ps) : ps \in UNION { [1..n -> OrderPieces] : n \in 0..MaxOrderParts } }

\* the for loop has not started: every entry of the table is still to come
InitOrder ==
    /\ strategy = NoStrategy
    /\ req = [r \in Requests |-> Idle]
    /\ pure \in { [method |-> "parseCode", encodedCode |-> s,
                   remaining |-> 1..Len(replacements), value |-> s] : s \in OrderInputs }

\* one round of the for loop, for an entry that has not had its round
ParseEntry(i) ==
    /\ pure.method = "parseCode"
    /\ i \in pure.remaining
    /\ pure' = [pure EXCEPT !.remaining = @ \ {i},
                            !.value = replaceWhile(@, replacements[i][1], replacements[i][2])]
    /\ UNCHANGED <<strategy, req>>

NextOrder == \E i \in 1..Len(replacements) : ParseEntry(i)

SpecOrder == InitOrder /\ [][NextOrder]_vars

\* C17: when every entry of the table has had its round, in whatever order, the
\* string is the one parseCode returns with the table in its written order.
C17_OrderOfEntriesIrrelevant ==
    (pure.method = "parseCode" /\ pure.remaining = {})
    => pure.value = parseCode(pure.encodedCode)

C17_Witness ==
    /\ pure.method = "parseCode"
    /\ pure.remaining = {1}
    /\ pure.encodedCode = <<"%","3","D","%","2","4">>
    /\ pure.value = <<"=","%","2","4">>

----------------------------------------------------------------------------
(* Properties of the outbound calls *)

\* a piece key=value cut at its first '='; a piece without '=' has no value
PairOf(piece) ==
    IF Includes(piece, <<"=">>)
    THEN << SubSeq(piece, 1, IndexOf(piece, <<"=">>) - 1), AfterFirst(piece, "=") >>
    ELSE << piece, Undefined >>

\* the parameters of an outbound URL, in order
ParamsOf(url) ==
    LET pieces == Split(QueryOf(url), "&")
    IN  [ i \in 1..Len(pieces) |-> PairOf(pieces[i]) ]

\* C13: the query part of the token-exchange URL of a request, cut at '&' and
\* each piece at its first '=', is exactly client_id, redirect_uri,
\* client_secret, code, in this order, with the configured values and the
\* decoded code of the request.
C13_TokenURLHasFourParams ==
    \A r \in Requests :
        Len(req[r].fetches) > 0
        => ParamsOf(req[r].fetches[1]) =
              << <<client_id, Get(strategy.options, client_id)>>,
                 <<redirect_uri, Get(strategy.options, redirect_uri)>>,
                 <<client_secret, Get(strategy.options, client_secret)>>,
                 <<code, parseCode(req[r].URI2_0)>> >>

\* what holds of request r at any time: at most one token call, then at most
\* one debug_token call, the second only with a token response in hand
OneCallEach(r) ==
    /\ Len(req[r].fetches) <= 2
    /\ Len(req[r].fetches) >= 1 => req[r].fetches[1][1] = tokenURL[1]
    /\ Len(req[r].fetches) = 2
         => /\ req[r].fetches[2][1] = authDataURL[1]
            /\ req[r].tokenResponse.kind = "object"
    /\ req[r].result.kind \in {"Error", "rejected"} => Done(r)

\* what holds of every step of request r: a call is only ever added, the
\* debug_token call in the very step that takes the token response, and a
\* request that has ended (failed or not) does nothing more
CallsInSequence(r) ==
    /\ req'[r].fetches # req[r].fetches
         => /\ ~Done(r)
            /\ Len(req'[r].fetches) = Len(req[r].fetches) + 1
            /\ SubSeq(req'[r].fetches, 1, Len(req[r].fetches)) = req[r].fetches
    /\ (Len(req[r].fetches) = 1 /\ Len(req'[r].fetches) = 2)
         => /\ req[r].pc = "awaitToken"
            /\ req[r].tokenResponse = NoResponse
            /\ req'[r].tokenResponse.kind = "object"
    /\ Done(r) => req'[r] = req[r]

\* C14: in every request the identity-lookup GET is issued only once the
\* token-exchange GET has returned a response; there is at most one GET of each
\* kind (no retry); after a failure, as after any outcome, the request issues
\* no further call.
C14_SequentialCallsNoRetry ==
    [][\A r \in Requests : OneCallEach(r)' /\ CallsInSequence(r)]_vars

C14_Witness ==
    \E r \in Requests :
        /\ Len(req[r].fetches) = 2
        /\ req[r].authDataResponse.kind = "reject"
        /\ Done(r)

----------------------------------------------------------------------------
(* Concurrent requests on one instance *)

ConcSearches ==
    { <<>>,
      <<"?">> \o code \o <<"=","a","%","3","D","b">>,
      <<"?">> \o error \o <<"=","a">> }

ConcTokenResponses ==
    { d \in TokenResponses :
        \/ d.kind = "reject"
        \/ d.kind = "object" /\ d.type = Undefined /\ d.access_token # Undefined
        \/ d.kind = "object" /\ d.type = <<"oAuthException">> /\ d.access_token = <<"T">> }

ConcAuthDataResponses ==
    { d \in AuthDataResponses : d.kind = "reject" \/ d.user_id # Undefined }

\* any request may take its next step: handlers interleave at their awaits
NextConc ==
    \/ strategy.status = "none" /\ \E options \in OptionsInputs : New(options)
    \/ \E r \in Requests :
        \/ strategy.status = "ok" /\ req[r].pc = "idle"
             /\ \E search \in ConcSearches : Router(r, search)
        \/ req[r].pc = "awaitToken"
             /\ \E data \in ConcTokenResponses : TokenFetchSettles(r, data)
        \/ req[r].pc = "awaitAuthData"
             /\ \E data \in ConcAuthDataResponses : AuthDataFetchSettles(r, data)

SpecConc == Init /\ [][NextConc]_vars

\* the debug_token call of request r carries the token of r's own token
\* response and the app credential client_id|client_secret
OwnTokenInLookup(r) ==
    Len(req[r].fetches) = 2
    => QueryOf(req[r].fetches[2]) =
          input_token \o <<"=">> \o Str(req[r].tokenResponse.access_token)
          \o <<"&">> \o access_token \o <<"=">>
          \o Get(strategy.arg, client_id) \o <<"|">> \o Get(strategy.arg, client_secret)

\* the stored options and query string are the ones the constructor computed
StoredAsConstructed ==
    strategy.status = "ok"
    => /\ strategy.options = strategy.arg
       /\ strategy.uriFromParams = constructURI(strategy.arg, client_secret)

\* C16: however the requests interleave, no step of a request changes the
\* stored options or the precomputed query string (which stays constructURI of
\* the options without client_secret), and the identity lookup of each request
\* carries as input_token the access_token of that request's own token
\* response, with access_token = client_id|client_secret.
C16_NoSharedMutation ==
    [][ /\ strategy.status = "ok" => strategy' = strategy
        /\ StoredAsConstructed'
        /\ \A r \in Requests : OwnTokenInLookup(r)' ]_vars

C16_Witness ==
    \E r1, r2 \in Requests :
        /\ r1 # r2
        /\ Len(req[r1].fetches) = 2
        /\ Len(req[r2].fetches) = 2
        /\ req[r1].tokenResponse.access_token = <<"T">>
        /\ req[r2].tokenResponse.access_token = <<"V">>
        /\ req[r1].pc = "awaitAuthData"
        /\ req[r2].pc = "done"

----------------------------------------------------------------------------
(* Termination *)

\* every outbound call that is in flight eventually settles, with a response
\* or with a failure
TokenCallSettles ==
    \E r \in Requests : \E data \in TokenResponses : TokenFetchSettles(r, data)

AuthDataCallSettles ==
    \E r \in Requests : \E data \in AuthDataResponses : AuthDataFetchSettles(r, data)

SpecLive ==
    Init /\ [][Next]_vars /\ WF_vars(TokenCallSettles) /\ WF_vars(AuthDataCallSettles)

\* the request has arrived with an empty query string or one beginning with 'code'
Arrived(r) ==
    /\ Entered(r, "router")
    /\ \/ req[r].search = <<>>
       \/ Slice(req[r].search, 1, 5) = code

\* redirect issued, AuthData returned, or error value returned
TerminalOutcome(r) ==
    \/ req[r].redirects # <<>>
    \/ IsOutcome(req[r].result)

\* C19: when every outbound call eventually settles, a request that arrived
\* with an empty query string or one beginning with 'code' eventually has a
\* terminal outcome (redirect issued, AuthData returned or error value
\* returned) and keeps it for ever.
C19_EventuallyTerminalOutcome ==
    \A r \in Requests : Arrived(r) ~> []TerminalOutcome(r)

====
